---- MODULE Spec2Model ----
(***************************************************************************)
(* A model of the SDR system (src/src/sdr): the email transport            *)
(* (email.py), the tool factory (tools.py), the personas (agents.py) and   *)
(* the orchestration manager (manager.py).                                 *)
(*                                                                         *)
(* The agent runtime (Runner.run), the language model behind every persona *)
(* and the mail provider are the environment.  The language model is free  *)
(* to answer with any call the agent definition allows: the tool list, the *)
(* handoff list and the guardrail list of an Agent are what the code       *)
(* fixes, the prompt text is not enforced by any code.                     *)
(***************************************************************************)
EXTENDS Naturals, Sequences, FiniteSets, TLC

VARIABLES
    outbound,      \* provider calls issued so far (client.mail.send.post), in order
    emailOp,       \* the transport operation called last ("none" before any)
    emailCalls,    \* number of transport operations called
    emailResult,   \* how the last transport operation ended
    lastResponse,  \* what the provider answered to the last call
    \* generate_emails
    genPc,         \* "idle", "awaiting" (in asyncio.gather), "returned", "raised"
    genMessage,    \* the message argument
    task,          \* persona -> "none", "running", "done", "failed"
    taskOut,       \* persona -> final_output of its run ("" until it is done)
    completed,     \* personas in the order their runs completed
    genResult,     \* the list generate_emails returned
    agentField,    \* persona -> SalesAgent._agent of the manager's persona object
    genError,      \* the exception generate_emails raised to its caller
    \* pick_best_email
    pickPc,        \* "idle", "awaiting" (in Runner.run), "returned", "raised"
    emails,        \* the emails argument
    pickerInputs,  \* inputs submitted to the picker persona, in order
    pickerOut,     \* final_output of the picker run
    pickResult,    \* the string pick_best_email returned
    pickError,     \* the exception pick_best_email raised to its caller
    \* send_sales_email: one top-level request and the run it awaits
    pc,            \* "idle", "running", "returned", "raised"
    message,       \* the message argument
    use_handoff,   \* the use_handoff argument
    agent,         \* name of the agent the run is currently executing
    phase,         \* "model": awaiting the model's response; "tools": executing its calls
    nextStep,      \* what the response asks for once its tool calls are done
    pending,       \* tool calls of the current response not yet started
    running,       \* tool calls started and not yet returned
    invoked,       \* tools invoked so far in this request
    returned,      \* tools that have returned in this request
    sendCalls,     \* the send-tool calls of this request with their arguments
    accepted,      \* send-tool calls of this request the provider accepted
    toolError,     \* the exception last raised inside a send tool of this request
    guard,         \* input guardrail: "none", "running", "passed", "tripped", "failed"
    found_name,    \* the guardrail agent's NameCheckOutput
    result,        \* what send_sales_email gave its caller
    \* configuration and construction
    environ,       \* os.environ: a function from the variables that are set
    dotenv,        \* the variables the .env file sets
    cfgOp,         \* "none", "from_env", "SDRManager()", "SDRManager(email_config)"
    cfgResult,     \* how the EmailConfig was obtained, or the exception raised
    clientCreated  \* whether sendgrid.SendGridAPIClient has been created

emailVars == <<emailOp, emailCalls, emailResult, lastResponse>>

genVars == <<genPc, genMessage, task, taskOut, completed, genResult, agentField, genError>>

pickVars == <<pickPc, emails, pickerInputs, pickerOut, pickResult, pickError>>

runVars == <<pc, message, use_handoff, agent, phase, nextStep, pending, running,
             invoked, returned, sendCalls, accepted, toolError, guard, found_name, result>>

cfgVars == <<environ, dotenv, cfgOp, cfgResult, clientCreated>>

vars == <<outbound, emailVars, genVars, pickVars, runVars, cfgVars>>

(***************************************************************************)
(* Bounds of the model.                                                    *)
(***************************************************************************)
MaxOutbound == 2      \* provider calls per behaviour
MaxEmails == 3        \* length of the list given to pick_best_email

(***************************************************************************)
(* Inputs.                                                                 *)
(***************************************************************************)
Bodies == {"draft", "<p>draft</p>"}
Subjects == {"Sales email", "Quick question"}

\* The body a send tool is called with: the chosen draft, as text or as HTML.
ToolBodies == {"draft"}

\* Status codes the provider may answer with; 201 lies between the two accepted.
StatusCodes == {199, 200, 201, 202, 203, 400, 401, 500}

\* client.mail.send.post either returns a response, or the HTTP client itself
\* raises for an error status; both carry the status code.
ProviderOutcomes ==
    [kind : {"response"}, status_code : StatusCodes]
        \cup [kind : {"client_error"},
              status_code : {c \in StatusCodes : c \notin 200..299}]

(***************************************************************************)
(* config.py                                                               *)
(***************************************************************************)
EmailConfig ==
    [from_email |-> "ed@edwarddonner.com", to_email |-> "ed.donner@gmail.com"]

(***************************************************************************)
(* email.py: EmailService                                                  *)
(***************************************************************************)
NoResult == [kind |-> "none", exc |-> "none", status_code |-> 0]

Mail(content_type, subject, body) ==
    [from_email |-> EmailConfig.from_email, to_email |-> EmailConfig.to_email,
     subject |-> subject, content_type |-> content_type, body |-> body]

\* Mutant of CheckStatus: a range test in place of the two accepted codes.
CheckStatusRange(status_code) ==
    IF status_code \notin 200..202
    THEN [kind |-> "raise", exc |-> "Exception", status_code |-> status_code]
    ELSE [kind |-> "return", exc |-> "none", status_code |-> status_code]

\* if response.status_code not in [200, 202]: raise Exception(...status code...)
\* return {"status": "success", "status_code": response.status_code}
CheckStatus(status_code) ==
    IF status_code \notin {200, 202}
    THEN [kind |-> "raise", exc |-> "Exception", status_code |-> status_code]
    ELSE [kind |-> "return", exc |-> "none", status_code |-> status_code]

\* Mutant of Deliver: a rejected mail is posted a second time.
DeliverRetry(mail, outcome) ==
    [calls  |-> IF outcome.kind = "client_error"
                   \/ outcome.status_code \notin {200, 202}
                THEN <<mail, mail>> ELSE <<mail>>,
     result |-> IF outcome.kind = "client_error"
                THEN [kind |-> "raise", exc |-> "HTTPError",
                      status_code |-> outcome.status_code]
                ELSE CheckStatus(outcome.status_code)]

\* One post of the mail, then the status check (or the client's own raise).
Deliver(mail, outcome) ==
    [calls  |-> <<mail>>,
     result |-> IF outcome.kind = "client_error"
                THEN [kind |-> "raise", exc |-> "HTTPError",
                      status_code |-> outcome.status_code]
                ELSE CheckStatus(outcome.status_code)]

send_plain_email(body, subject, outcome) ==
    Deliver(Mail("text/plain", subject, body), outcome)

send_html_email(subject, html_body, outcome) ==
    Deliver(Mail("text/html", subject, html_body), outcome)

send_test_email(outcome) ==
    send_plain_email("This is an important test email", "Test email", outcome)

(***************************************************************************)
(* The transport operations called directly (main.py test_email, or any    *)
(* caller of EmailService).                                                *)
(***************************************************************************)
EmailIdle ==
    /\ emailOp = "none"
    /\ emailCalls = 0
    /\ emailResult = NoResult
    /\ lastResponse = [kind |-> "none", status_code |-> 0]

Transport(op, r, outcome) ==
    /\ outbound' = outbound \o r.calls
    /\ emailOp' = op
    /\ emailCalls' = emailCalls + 1
    /\ emailResult' = r.result
    /\ lastResponse' = outcome
    /\ UNCHANGED <<genVars, pickVars, runVars, cfgVars>>

SendPlainEmail ==
    \E body \in Bodies, subject \in Subjects, outcome \in ProviderOutcomes :
        /\ Len(outbound) < MaxOutbound
        /\ Transport("send_plain_email", send_plain_email(body, subject, outcome),
                     outcome)

SendHtmlEmail ==
    \E subject \in Subjects, html_body \in Bodies, outcome \in ProviderOutcomes :
        /\ Len(outbound) < MaxOutbound
        /\ Transport("send_html_email", send_html_email(subject, html_body, outcome),
                     outcome)

SendTestEmail ==
    \E outcome \in ProviderOutcomes :
        /\ Len(outbound) < MaxOutbound
        /\ Transport("send_test_email", send_test_email(outcome), outcome)

(***************************************************************************)
(* manager.py: SDRManager.generate_emails                                  *)
(***************************************************************************)
\* The three drafting personas in declaration order, which is the order of
\* the arguments of asyncio.gather.
Personas == <<"professional", "engaging", "busy">>

PersonaSet == {Personas[i] : i \in 1..Len(Personas)}

Messages == {"Write a cold sales email", "Send a cold sales email from Alice"}

\* What a drafting persona may answer.
Drafts == {"Dear CEO, formal", "Hey there!"}

\* The exceptions a run of agent a can raise: a failure of the model or the
\* runtime, and the tripwire exception if a has input guardrails.
RunExceptions(a) ==
    {"RuntimeError"}
        \cup (IF a.input_guardrails # {} THEN {"InputGuardrailTripwireTriggered"} ELSE {})

PersonaNames ==
    [professional |-> "Professional Sales Agent", engaging |-> "Engaging Sales Agent",
     busy |-> "Busy Sales Agent"]

\* Mutant of SalesAgentDef: the drafting personas carry the name guardrail.
SalesAgentGuarded(p) ==
    [name |-> PersonaNames[p], tools |-> {}, handoffs |-> {},
     input_guardrails |-> {"guardrail_against_name"}]

\* SalesAgent.agent: Agent(name=self.name, instructions=..., model=...), with
\* no tools, no handoffs and no guardrails.
SalesAgentDef(p) ==
    [name |-> PersonaNames[p], tools |-> {}, handoffs |-> {}, input_guardrails |-> {}]

\* Mutant of agent_property: a new Agent is built on every read.
agent_property_uncached(_agent) ==
    IF _agent = "Agent#1" THEN "Agent#2" ELSE "Agent#1"

\* SalesAgent.agent: if self._agent is None: self._agent = Agent(...);
\* the value of _agent after the read.
agent_property(_agent) ==
    IF _agent = "None" THEN "Agent#1" ELSE _agent

GenIdle ==
    /\ genPc = "idle"
    /\ genMessage = ""
    /\ task = [p \in PersonaSet |-> "none"]
    /\ taskOut = [p \in PersonaSet |-> ""]
    /\ completed = <<>>
    /\ genResult = <<>>
    /\ agentField = [p \in PersonaSet |-> "None"]
    /\ genError = "none"

\* Mutant of GatherResults: the results in completion order.
GatherCompletionOrder(out, order) ==
    [i \in 1..Len(order) |-> out[order[i]]]

\* asyncio.gather returns the results in the order of its arguments; the list
\* comprehension keeps that order: [result.final_output for result in results].
GatherResults(out, order) ==
    [i \in 1..Len(Personas) |-> out[Personas[i]]]

\* Mutant of JoinOutcome: the failed runs are dropped and the rest returned.
JoinSalvage(t, out, order) ==
    IF \A p \in PersonaSet : t[p] \in {"done", "failed"}
    THEN [pc |-> "returned",
          list |-> GatherCompletionOrder(out, SelectSeq(order, LAMBDA p : t[p] = "done"))]
    ELSE [pc |-> "awaiting", list |-> <<>>]

\* await asyncio.gather(...) without return_exceptions: the first exception of
\* any run is raised to the awaiting caller at once; with all three done the
\* list is returned.
JoinOutcome(t, out, order) ==
    IF \E p \in PersonaSet : t[p] = "failed"
    THEN [pc |-> "raised", list |-> <<>>]
    ELSE IF \A p \in PersonaSet : t[p] = "done"
         THEN [pc |-> "returned", list |-> GatherResults(out, order)]
         ELSE [pc |-> "awaiting", list |-> <<>>]

\* The call: the three .agent properties are read (SalesAgent.agent sets
\* _agent on first use) and the three runs are handed to asyncio.gather.
\* A caller may call again once the runs of the previous call have settled.
GenerateEmails ==
    \E m \in Messages :
        /\ genPc \in {"idle", "returned", "raised"}
        /\ \A p \in PersonaSet : task[p] # "running"
        /\ genPc' = "awaiting"
        /\ genMessage' = m
        /\ agentField' = [p \in PersonaSet |-> agent_property(agentField[p])]
        /\ task' = [p \in PersonaSet |-> "running"]
        /\ taskOut' = [p \in PersonaSet |-> ""]
        /\ completed' = <<>>
        /\ genResult' = <<>>
        /\ genError' = "none"
        /\ UNCHANGED <<outbound, emailVars, pickVars, runVars, cfgVars>>

\* A run has settled; the caller, if still awaiting the join, may resume.
Settle(t, out, order) ==
    /\ task' = t
    /\ taskOut' = out
    /\ completed' = order
    /\ IF genPc = "awaiting"
       THEN LET j == JoinOutcome(t, out, order)
            IN  genPc' = j.pc /\ genResult' = j.list
       ELSE UNCHANGED <<genPc, genResult>>
    /\ UNCHANGED <<genMessage, agentField, outbound, emailVars, pickVars, runVars, cfgVars>>

\* Runner.run of one drafting persona returns its final_output.
DraftCompletes ==
    \E p \in PersonaSet, d \in Drafts :
        /\ task[p] = "running"
        /\ Settle([task EXCEPT ![p] = "done"], [taskOut EXCEPT ![p] = d],
                  Append(completed, p))
        /\ UNCHANGED genError

\* Runner.run of one drafting persona raises; the caller, if it is still
\* awaiting the join, gets that exception.
DraftFails ==
    \E p \in PersonaSet :
        \E exc \in RunExceptions(SalesAgentDef(p)) :
            /\ task[p] = "running"
            /\ Settle([task EXCEPT ![p] = "failed"], taskOut, completed)
            /\ genError' = IF genPc = "awaiting" THEN exc ELSE genError

GenNext ==
    \/ GenerateEmails
    \/ DraftCompletes
    \/ DraftFails

(***************************************************************************)
(* manager.py: SDRManager.pick_best_email                                  *)
(***************************************************************************)
\* The draft strings a caller may pass.
DraftTexts == {"A", "B\n\nEmail:\n\n", ""}

\* What the picker persona may answer: one of the drafts, or other text.
PickerOutputs == DraftTexts \cup {"I pick A"}

RECURSIVE SeqsUpTo(_)
SeqsUpTo(n) ==
    IF n = 0 THEN {<<>>}
    ELSE LET shorter == SeqsUpTo(n - 1)
         IN  shorter \cup {Append(s, d) : s \in {t \in shorter : Len(t) = n - 1},
                                          d \in DraftTexts}

\* Mutant of Join: a separator after every item, the last included.
RECURSIVE JoinTrailing(_, _)
JoinTrailing(sep, items) ==
    IF items = <<>> THEN ""
    ELSE items[1] \o sep \o JoinTrailing(sep, Tail(items))

\* str.join: the items with sep between neighbours.
RECURSIVE Join(_, _)
Join(sep, items) ==
    IF items = <<>> THEN ""
    ELSE IF Len(items) = 1 THEN items[1]
    ELSE items[1] \o sep \o Join(sep, Tail(items))

\* emails_text = "Cold sales emails:\n\n" + "\n\nEmail:\n\n".join(emails)
EmailsText(list) ==
    "Cold sales emails:\n\n" \o Join("\n\nEmail:\n\n", list)

\* SalesPickerAgent: Agent(name="sales_picker", instructions=..., model=...)
sales_picker ==
    [name |-> "sales_picker", tools |-> {}, handoffs |-> {}, input_guardrails |-> {}]

PickIdle ==
    /\ pickPc = "idle"
    /\ pickError = "none"
    /\ emails = <<>>
    /\ pickerInputs = <<>>
    /\ pickerOut = ""
    /\ pickResult = ""

\* The call up to the await: a picker persona is built as a local object and
\* one picker run is started on emails_text.
PickBestEmail ==
    \E list \in SeqsUpTo(MaxEmails) :
        /\ pickPc = "idle"
        /\ pickPc' = "awaiting"
        /\ emails' = list
        /\ pickerInputs' = Append(pickerInputs, EmailsText(list))
        /\ UNCHANGED <<pickerOut, pickResult, pickError, outbound, emailVars, genVars,
                       runVars, cfgVars>>

\* The picker run returns; return result.final_output.
PickerReturns ==
    \E text \in PickerOutputs :
        /\ pickPc = "awaiting"
        /\ pickPc' = "returned"
        /\ pickerOut' = text
        /\ pickResult' = text
        /\ UNCHANGED <<emails, pickerInputs, pickError, outbound, emailVars, genVars,
                       runVars, cfgVars>>

\* The picker run raises; nothing catches it.
PickerFails ==
    /\ pickPc = "awaiting"
    /\ pickPc' = "raised"
    /\ pickError' \in RunExceptions(sales_picker)
    /\ UNCHANGED <<emails, pickerInputs, pickerOut, pickResult, outbound,
                   emailVars, genVars, runVars, cfgVars>>

PickNext ==
    \/ PickBestEmail
    \/ PickerReturns
    \/ PickerFails

(***************************************************************************)
(* tools.py: ToolFactory; agents.py: the personas with tools               *)
(***************************************************************************)
\* create_sales_agent_tools: [tool1, tool2, tool3]
sales_tools == <<"sales_agent1", "sales_agent2", "sales_agent3">>

\* create_email_formatting_tools: [subject_tool, html_tool]
email_formatting_tools == <<"subject_writer", "html_converter">>

\* SDRManager.__init__: email_tools = email_formatting_tools + [html_email_tool]
email_tools == email_formatting_tools \o <<"send_html_email">>

Range(list) == {list[i] : i \in 1..Len(list)}

\* The tools that send mail, and the tools that are an agent behind as_tool.
SendTools == {"send_email", "send_html_email"}

DraftingTools == Range(sales_tools)

\* Mutant of EmailManagerAgent: the delegate may hand back to the manager.
EmailManagerAgentHandsBack ==
    [name |-> "Email Manager", tools |-> Range(email_tools),
     handoffs |-> {"Sales Manager"}, input_guardrails |-> {}]

\* EmailManagerAgent: Agent(name="Email Manager", tools=tools, ...); it has no
\* handoffs and no guardrails.
EmailManagerAgent ==
    [name |-> "Email Manager", tools |-> Range(email_tools), handoffs |-> {},
     input_guardrails |-> {}]

\* _create_sales_manager: the agent of the handoff path.
HandoffSalesManager ==
    [name |-> "Sales Manager", tools |-> Range(sales_tools),
     handoffs |-> {EmailManagerAgent.name},
     input_guardrails |-> {"guardrail_against_name"}]

\* Mutant of ToolsSalesManager: the direct-send agent keeps the handoff.
ToolsSalesManagerWithHandoff ==
    [name |-> "Sales Manager", tools |-> Range(sales_tools \o <<"send_email">>),
     handoffs |-> {EmailManagerAgent.name},
     input_guardrails |-> {"guardrail_against_name"}]

\* _send_with_tools: the agent of the direct-send path,
\* tools=self.sales_tools + [self.email_tool], no handoffs.
ToolsSalesManager ==
    [name |-> "Sales Manager", tools |-> Range(sales_tools \o <<"send_email">>),
     handoffs |-> {},
     input_guardrails |-> {"guardrail_against_name"}]

\* send_sales_email: if not use_handoff: _send_with_tools else _send_with_handoff
StartingAgent(handoff) ==
    IF ~handoff THEN ToolsSalesManager ELSE HandoffSalesManager

\* The definition of the agent the run is executing.
CurrentAgent ==
    IF agent = EmailManagerAgent.name THEN EmailManagerAgent
    ELSE StartingAgent(use_handoff)

(***************************************************************************)
(* manager.py: the guardrail                                               *)
(***************************************************************************)
\* What the guardrail agent may answer (output_type=NameCheckOutput).
NameCheckOutputs ==
    {[is_name_in_message |-> FALSE, name |-> ""],
     [is_name_in_message |-> TRUE, name |-> "Alice"],
     [is_name_in_message |-> TRUE, name |-> "Bob"]}

NoNameCheck == [is_name_in_message |-> FALSE, name |-> "(not run)"]

\* Mutant of guardrail_against_name: the agent's answer is left out of
\* output_info.
guardrail_drops_name(final_output) ==
    [output_info |-> [found_name |-> NoNameCheck],
     tripwire_triggered |-> final_output.is_name_in_message]

\* GuardrailFunctionOutput(output_info={"found_name": result.final_output},
\*                         tripwire_triggered=is_name_in_message)
guardrail_against_name(final_output) ==
    [output_info |-> [found_name |-> final_output],
     tripwire_triggered |-> final_output.is_name_in_message]

(***************************************************************************)
(* manager.py: send_sales_email and the run it awaits.                     *)
(*                                                                         *)
(* Runner.run evaluates the input guardrails of the starting agent         *)
(* concurrently with that agent's first turn (the model call and the tool  *)
(* calls it asks for); a raised tripwire ends the run with the exception   *)
(* InputGuardrailTripwireTriggered, which carries the guardrail's output.  *)
(* An exception inside a tool is turned into the tool's output text by the *)
(* default failure_error_function of function_tool, and the run goes on.   *)
(***************************************************************************)
NoRunResult ==
    [kind |-> "none", exc |-> "none", last_agent |-> "none",
     output_info |-> NoNameCheck]

RunIdle ==
    /\ pc = "idle"
    /\ message = ""
    /\ use_handoff = TRUE
    /\ agent = "none"
    /\ phase = "none"
    /\ nextStep = "none"
    /\ pending = {}
    /\ running = {}
    /\ invoked = {}
    /\ returned = {}
    /\ sendCalls = <<>>
    /\ accepted = 0
    /\ toolError = NoResult
    /\ guard = "none"
    /\ found_name = NoNameCheck
    /\ result = NoRunResult

notRun == <<outbound, emailVars, genVars, pickVars, cfgVars>>

\* The call: the agent of the chosen path is handed to Runner.run.
SendSalesEmail ==
    \E m \in Messages, handoff \in BOOLEAN :
        /\ pc = "idle"
        /\ pc' = "running"
        /\ message' = m
        /\ use_handoff' = handoff
        /\ agent' = StartingAgent(handoff).name
        /\ phase' = "model"
        /\ guard' = IF StartingAgent(handoff).input_guardrails = {}
                    THEN "passed" ELSE "running"
        /\ UNCHANGED <<nextStep, pending, running, invoked, returned, sendCalls, accepted,
                       toolError, found_name, result, outbound, emailVars, genVars, pickVars, cfgVars>>

\* The model answers with tool calls: any non-empty set of the agent's tools.
ModelCallsTools ==
    \E calls \in SUBSET CurrentAgent.tools :
        /\ pc = "running" /\ phase = "model"
        /\ calls # {}
        /\ (calls \cap SendTools # {}) => Len(outbound) < MaxOutbound
        /\ phase' = "tools"
        /\ nextStep' = "run_again"
        /\ pending' = calls
        /\ UNCHANGED <<pc, message, use_handoff, agent, running, invoked, returned,
                       sendCalls, accepted, toolError, guard, found_name, result, notRun>>

\* The model answers with a handoff to one of the agent's handoff targets.
ModelHandsOff ==
    \E target \in CurrentAgent.handoffs :
        /\ pc = "running" /\ phase = "model"
        /\ phase' = "tools"
        /\ nextStep' = target
        /\ UNCHANGED <<pc, message, use_handoff, agent, pending, running, invoked,
                       returned, sendCalls, accepted, toolError, guard, found_name, result, notRun>>

\* The model answers with plain text: the final output of the run.
ModelAnswers ==
    /\ pc = "running" /\ phase = "model"
    /\ phase' = "tools"
    /\ nextStep' = "final_output"
    /\ UNCHANGED <<pc, message, use_handoff, agent, pending, running, invoked,
                   returned, sendCalls, accepted, toolError, guard, found_name, result, notRun>>

\* The model call raises; nothing in manager.py catches it.
ModelFails ==
    /\ pc = "running" /\ phase = "model"
    /\ pc' = "raised"
    /\ phase' = "none"
    /\ result' = [NoRunResult EXCEPT !.kind = "raise", !.exc = "RuntimeError",
                                     !.last_agent = agent]
    /\ UNCHANGED <<message, use_handoff, agent, nextStep, pending, running,
                   invoked, returned, sendCalls, accepted, toolError, guard, found_name, notRun>>

\* A tool that wraps an agent (as_tool) is invoked: a nested run starts.
AgentToolStarts ==
    \E t \in pending \ SendTools :
        /\ pc = "running" /\ phase = "tools"
        /\ pending' = pending \ {t}
        /\ running' = running \cup {t}
        /\ invoked' = invoked \cup {t}
        /\ UNCHANGED <<pc, message, use_handoff, agent, phase, nextStep, returned,
                       sendCalls, accepted, toolError, guard, found_name, result, notRun>>

\* The nested run ends and its output (or its error text) is the tool's output.
AgentToolReturns ==
    \E t \in running :
        /\ pc = "running" /\ phase = "tools"
        /\ running' = running \ {t}
        /\ returned' = returned \cup {t}
        /\ UNCHANGED <<pc, message, use_handoff, agent, phase, nextStep, pending,
                       invoked, sendCalls, accepted, toolError, guard, found_name, result, notRun>>

\* A send tool ran: the transport call r was made; a raise inside the tool
\* becomes the tool's output, so the run continues either way.
SendToolRuns(t, args, r) ==
    /\ sendCalls' = Append(sendCalls, [tool |-> t, args |-> args])
    /\ pending' = pending \ {t}
    /\ invoked' = invoked \cup {t}
    /\ returned' = returned \cup {t}
    /\ outbound' = outbound \o r.calls
    /\ accepted' = IF r.result.kind = "return" THEN accepted + 1 ELSE accepted
    /\ toolError' = IF r.result.kind = "raise" THEN r.result ELSE toolError
    /\ UNCHANGED <<pc, message, use_handoff, agent, phase, nextStep, running,
                   guard, found_name, result, emailVars, genVars, pickVars, cfgVars>>

\* tools.py send_email(body): self.email_service.send_plain_email(body), the
\* subject left to its default "Sales email".
InvokeSendEmail ==
    \E body \in ToolBodies, outcome \in ProviderOutcomes :
        /\ pc = "running" /\ phase = "tools"
        /\ "send_email" \in pending
        /\ SendToolRuns("send_email", <<body>>,
                        send_plain_email(body, "Sales email", outcome))

\* tools.py send_html_email(subject, html_body):
\* self.email_service.send_html_email(subject, html_body)
InvokeSendHtmlEmail ==
    \E subject \in Subjects, html_body \in ToolBodies, outcome \in ProviderOutcomes :
        /\ pc = "running" /\ phase = "tools"
        /\ "send_html_email" \in pending
        /\ SendToolRuns("send_html_email", <<subject, html_body>>,
                        send_html_email(subject, html_body, outcome))

\* The turn is over when every tool call of the response has returned and,
\* in the first turn, the guardrails have passed.
TurnOver ==
    /\ pc = "running" /\ phase = "tools"
    /\ pending = {} /\ running = {}
    /\ guard = "passed"

\* The tool outputs go back to the model: next turn of the same agent.
RunAgain ==
    /\ TurnOver
    /\ nextStep = "run_again"
    /\ phase' = "model"
    /\ nextStep' = "none"
    /\ UNCHANGED <<pc, message, use_handoff, agent, pending, running, invoked,
                   returned, sendCalls, accepted, toolError, guard, found_name, result, notRun>>

\* The handoff is taken: the run continues with the target agent.
Handoff ==
    /\ TurnOver
    /\ nextStep \in {HandoffSalesManager.name, EmailManagerAgent.name}
    /\ agent' = nextStep
    /\ phase' = "model"
    /\ nextStep' = "none"
    /\ UNCHANGED <<pc, message, use_handoff, pending, running, invoked, returned,
                   sendCalls, accepted, toolError, guard, found_name, result, notRun>>

\* Runner.run returns its result and send_sales_email returns it.
RunReturns ==
    /\ TurnOver
    /\ nextStep = "final_output"
    /\ pc' = "returned"
    /\ phase' = "none"
    /\ nextStep' = "none"
    /\ result' = [NoRunResult EXCEPT !.kind = "return", !.last_agent = agent,
                                     !.output_info = found_name]
    /\ UNCHANGED <<message, use_handoff, agent, pending, running, invoked,
                   returned, sendCalls, accepted, toolError, guard, found_name, notRun>>

\* The guardrail agent's run returns: guardrail_against_name builds the
\* guardrail output; a raised tripwire ends the run with the exception and
\* the agent's turn is cancelled.
GuardrailReturns ==
    \E final_output \in NameCheckOutputs :
        LET out == guardrail_against_name(final_output)
        IN  /\ pc = "running" /\ guard = "running"
            /\ found_name' = final_output
            /\ IF out.tripwire_triggered
               THEN /\ guard' = "tripped"
                    /\ pc' = "raised"
                    /\ phase' = "none"
                    /\ nextStep' = "none"
                    /\ pending' = {}
                    /\ running' = {}
                    /\ result' = [NoRunResult EXCEPT
                                      !.kind = "raise",
                                      !.exc = "InputGuardrailTripwireTriggered",
                                      !.last_agent = agent,
                                      !.output_info = out.output_info.found_name]
               ELSE /\ guard' = "passed"
                    /\ UNCHANGED <<pc, phase, nextStep, pending, running, result>>
            /\ UNCHANGED <<message, use_handoff, agent, invoked, returned,
                           sendCalls, accepted, toolError, notRun>>

\* The guardrail agent's run raises: the exception ends the run.
GuardrailFails ==
    /\ pc = "running" /\ guard = "running"
    /\ guard' = "failed"
    /\ pc' = "raised"
    /\ phase' = "none"
    /\ nextStep' = "none"
    /\ pending' = {}
    /\ running' = {}
    /\ result' = [NoRunResult EXCEPT !.kind = "raise", !.exc = "RuntimeError",
                                     !.last_agent = agent]
    /\ UNCHANGED <<message, use_handoff, agent, invoked, returned, sendCalls, accepted, toolError,
                   found_name, notRun>>

Next ==
    \/ SendSalesEmail
    \/ ModelCallsTools
    \/ ModelHandsOff
    \/ ModelAnswers
    \/ ModelFails
    \/ AgentToolStarts
    \/ AgentToolReturns
    \/ InvokeSendEmail
    \/ InvokeSendHtmlEmail
    \/ RunAgain
    \/ Handoff
    \/ RunReturns
    \/ GuardrailReturns
    \/ GuardrailFails

(***************************************************************************)
(* config.py: EmailConfig.from_env; manager.py: SDRManager.__init__        *)
(***************************************************************************)
EnvKeys == {"SENDGRID_API_KEY", "SENDGRID_FROM_EMAIL", "SENDGRID_TO_EMAIL"}

\* The values a variable may be set to, in the process or in the .env file.
EnvValues ==
    [SENDGRID_API_KEY |-> {"", "SG.key"},
     SENDGRID_FROM_EMAIL |-> {"sales@complai.com"},
     SENDGRID_TO_EMAIL |-> {"ceo@prospect.com"}]

\* Every environment: any subset of the variables set, each to one of its values.
Environs ==
    UNION {{e \in [keys -> UNION {EnvValues[k] : k \in keys}] :
                \A k \in keys : e[k] \in EnvValues[k]} : keys \in SUBSET EnvKeys}

\* The .env files: none (or one that leaves the key out), or one that sets it.
DotenvFiles ==
    {e \in Environs : DOMAIN e \subseteq {"SENDGRID_API_KEY"}}

\* load_dotenv(override=True): the file's variables replace the process's.
load_dotenv(env, file) ==
    [k \in DOMAIN env \cup DOMAIN file |-> IF k \in DOMAIN file THEN file[k] ELSE env[k]]

\* os.environ.get(key, default)
EnvGet(env, key, default) ==
    IF key \in DOMAIN env THEN env[key] ELSE default

NoConfig == [api_key |-> "", from_email |-> "", to_email |-> ""]

\* Mutant of from_env: the key is not checked.
from_env_unchecked(env) ==
    [kind |-> "return", exc |-> "none",
     config |-> [api_key |-> EnvGet(env, "SENDGRID_API_KEY", ""),
                 from_email |-> EnvGet(env, "SENDGRID_FROM_EMAIL", "ed@edwarddonner.com"),
                 to_email |-> EnvGet(env, "SENDGRID_TO_EMAIL", "ed.donner@gmail.com")]]

\* EmailConfig.from_env, on the environment load_dotenv has left:
\* api_key = os.environ.get("SENDGRID_API_KEY"); if not api_key: raise ValueError
from_env(env) ==
    IF "SENDGRID_API_KEY" \notin DOMAIN env \/ env["SENDGRID_API_KEY"] = ""
    THEN [kind |-> "raise", exc |-> "ValueError", config |-> NoConfig]
    ELSE [kind |-> "return", exc |-> "none",
          config |-> [api_key |-> env["SENDGRID_API_KEY"],
                      from_email |-> EnvGet(env, "SENDGRID_FROM_EMAIL",
                                            "ed@edwarddonner.com"),
                      to_email |-> EnvGet(env, "SENDGRID_TO_EMAIL",
                                          "ed.donner@gmail.com")]]

\* The EmailConfig objects a caller may build itself; the dataclass checks nothing.
ExplicitConfigs ==
    {[api_key |-> "SG.explicit", from_email |-> "a@complai.com", to_email |-> "b@x.com"],
     [api_key |-> "", from_email |-> "a@complai.com", to_email |-> "b@x.com"]}

\* Before anything is constructed.
Unconfigured ==
    /\ environ \in Environs
    /\ dotenv \in DotenvFiles
    /\ cfgOp = "none"
    /\ cfgResult = [kind |-> "none", exc |-> "none", config |-> NoConfig]
    /\ clientCreated = FALSE

\* After SDRManager(email_config=...) has been constructed with a usable key.
Configured ==
    /\ environ = [k \in {"SENDGRID_API_KEY"} |-> "SG.key"]
    /\ dotenv = [k \in {} |-> ""]
    /\ cfgOp = "SDRManager()"
    /\ cfgResult = from_env(environ)
    /\ clientCreated = TRUE

notCfg == <<outbound, emailVars, genVars, pickVars, runVars>>

\* A caller (main.py, test-email) loads the configuration itself.
LoadFromEnv ==
    /\ cfgOp = "none"
    /\ cfgOp' = "from_env"
    /\ environ' = load_dotenv(environ, dotenv)
    /\ cfgResult' = from_env(environ')
    /\ UNCHANGED <<dotenv, clientCreated, notCfg>>

\* SDRManager(email_config): self.email_config = email_config or
\* EmailConfig.from_env(); then ToolFactory builds EmailService, whose
\* __init__ creates the SendGridAPIClient.  email_config is <<>> for None.
NewSDRManager ==
    \E email_config \in {<<>>} \cup {<<c>> : c \in ExplicitConfigs} :
        LET loaded == load_dotenv(environ, dotenv)
            cfg == IF email_config # <<>>
                   THEN [kind |-> "return", exc |-> "none", config |-> email_config[1]]
                   ELSE from_env(loaded)
        IN  /\ cfgOp = "none"
            /\ cfgOp' = IF email_config # <<>> THEN "SDRManager(email_config)"
                        ELSE "SDRManager()"
            /\ environ' = IF email_config # <<>> THEN environ ELSE loaded
            /\ cfgResult' = cfg
            /\ clientCreated' = (cfg.kind = "return")
            /\ UNCHANGED <<dotenv, notCfg>>

\* main.py test_email: EmailService(email_config) on a loaded configuration.
NewEmailService ==
    /\ cfgOp = "from_env"
    /\ cfgResult.kind = "return"
    /\ ~clientCreated
    /\ clientCreated' = TRUE
    /\ UNCHANGED <<environ, dotenv, cfgOp, cfgResult, notCfg>>

\* main.py test_email: email_service.send_test_email(), the first network call.
TestEmail ==
    /\ clientCreated
    /\ SendTestEmail

ConfigNext ==
    \/ LoadFromEnv
    \/ NewSDRManager
    \/ NewEmailService
    \/ TestEmail

(***************************************************************************)
(* Specifications: one per top-level entry point.                          *)
(***************************************************************************)
Idle ==
    /\ outbound = <<>>
    /\ EmailIdle
    /\ GenIdle
    /\ PickIdle
    /\ RunIdle
    /\ Configured

EmailNext ==
    \/ SendPlainEmail
    \/ SendHtmlEmail
    \/ SendTestEmail

SpecEmail == Idle /\ [][EmailNext]_vars

SpecGen == Idle /\ [][GenNext]_vars

SpecPick == Idle /\ [][PickNext]_vars

\* Nothing constructed yet, under any environment and .env file.
ConfigInit ==
    /\ outbound = <<>>
    /\ EmailIdle
    /\ GenIdle
    /\ PickIdle
    /\ RunIdle
    /\ Unconfigured

SpecConfig == ConfigInit /\ [][ConfigNext]_vars

\* One manager serving generate_emails calls, one after another, interleaved
\* with a pick_best_email call.
ManagerNext ==
    \/ GenNext
    \/ PickNext

SpecManager == Idle /\ [][ManagerNext]_vars

Init == Idle

Spec == Init /\ [][Next]_vars

(***************************************************************************)
(* C1: for every status code the provider returns, send_plain_email and    *)
(* send_html_email succeed if and only if the code is 200 or 202; for any  *)
(* other code the call raises an exception carrying that code and returns  *)
(* no success result.                                                      *)
(***************************************************************************)
C1_SuccessIff200or202 ==
    (emailOp \in {"send_plain_email", "send_html_email"}
        /\ lastResponse.kind = "response")
    => /\ (emailResult.kind = "return") <=> (lastResponse.status_code \in {200, 202})
       /\ (lastResponse.status_code \notin {200, 202})
              => (emailResult.kind = "raise"
                  /\ emailResult.status_code = lastResponse.status_code)
       /\ emailResult.kind \in {"return", "raise"}

\* A boundary code just outside the accepted ones has been rejected.
C1_Witness ==
    /\ emailOp = "send_html_email"
    /\ lastResponse = [kind |-> "response", status_code |-> 203]
    /\ emailResult.kind = "raise"
    /\ emailResult.status_code = 203

(***************************************************************************)
(* C2: every transport operation issues exactly one provider call, whether *)
(* the provider accepts or rejects it, with content type text/plain for    *)
(* send_plain_email and send_test_email and text/html for send_html_email. *)
(***************************************************************************)
C2_OneCallPerOperation ==
    /\ Len(outbound) = emailCalls
    /\ emailOp \in {"send_plain_email", "send_test_email"}
           => outbound[Len(outbound)].content_type = "text/plain"
    /\ emailOp = "send_html_email"
           => outbound[Len(outbound)].content_type = "text/html"

\* A rejected test mail: one call was issued, none repeated.
C2_Witness ==
    /\ emailOp = "send_test_email"
    /\ emailResult.kind = "raise"
    /\ emailCalls = 1
    /\ Len(outbound) = 1

(***************************************************************************)
(* C3: in any send_sales_email request, on either path, if the guardrail   *)
(* classifies the input as containing a personal name (tripwire true), no  *)
(* drafting tool and no send tool is invoked in that request, in any       *)
(* interleaving of the guardrail with the manager agent's progress.        *)
(***************************************************************************)
C3_BlockedBeforeAnyTool ==
    guard = "tripped" => invoked \cap (DraftingTools \cup SendTools) = {}

C5_AtMostOneEmail ==
    /\ Len(outbound) <= 1
    /\ (pc = "returned" /\ accepted >= 1) => Len(outbound) = 1

(***************************************************************************)
(* C6: when all three drafting calls succeed, generate_emails returns a    *)
(* list of exactly three outputs in persona declaration order              *)
(* (professional, engaging, busy), whatever the completion order of the    *)
(* three concurrent calls.                                                 *)
(***************************************************************************)
C6_ThreeDraftsInPersonaOrder ==
    /\ (\A p \in PersonaSet : task[p] = "done") => genPc = "returned"
    /\ genPc = "returned"
           => /\ Len(genResult) = 3
              /\ genResult[1] = taskOut["professional"]
              /\ genResult[2] = taskOut["engaging"]
              /\ genResult[3] = taskOut["busy"]

\* Returned after the runs completed in the reverse of the declaration order,
\* with drafts that tell the positions apart.
C6_Witness ==
    /\ genPc = "returned"
    /\ completed = <<"busy", "engaging", "professional">>
    /\ taskOut["professional"] # taskOut["busy"]

(***************************************************************************)
(* C7: if any one of the three concurrent drafting calls fails, the whole  *)
(* generate_emails operation fails and the caller receives no list at all, *)
(* whichever call fails and in whatever order they complete.               *)
(***************************************************************************)
C7_AllOrNothing ==
    (\E p \in PersonaSet : task[p] = "failed")
        => (genPc = "raised" /\ genResult = <<>>)

\* The last call to settle failed after the other two had completed.
C7_Witness ==
    /\ task["busy"] = "failed"
    /\ task["professional"] = "done"
    /\ task["engaging"] = "done"
    /\ genPc = "raised"

(***************************************************************************)
(* C8: for every ordered list of N >= 1 drafts, pick_best_email submits to *)
(* the picker exactly one input, the prefix "Cold sales emails:\n\n"       *)
(* followed by the drafts in their order joined by "\n\nEmail:\n\n" (N-1   *)
(* separators, none leading or trailing), makes exactly one picker call    *)
(* and returns that call's output unchanged.                               *)
(***************************************************************************)
C8_PickerInputAndOutput ==
    (pickPc # "idle" /\ Len(emails) >= 1)
    => /\ Len(pickerInputs) = 1
       /\ Len(emails) <= 4
       /\ Len(emails) = 1
              => pickerInputs[1] = "Cold sales emails:\n\n" \o emails[1]
       /\ Len(emails) = 2
              => pickerInputs[1] = "Cold sales emails:\n\n" \o emails[1]
                                   \o "\n\nEmail:\n\n" \o emails[2]
       /\ Len(emails) = 3
              => pickerInputs[1] = "Cold sales emails:\n\n" \o emails[1]
                                   \o "\n\nEmail:\n\n" \o emails[2]
                                   \o "\n\nEmail:\n\n" \o emails[3]
       /\ Len(emails) = 4
              => pickerInputs[1] = "Cold sales emails:\n\n" \o emails[1]
                                   \o "\n\nEmail:\n\n" \o emails[2]
                                   \o "\n\nEmail:\n\n" \o emails[3]
                                   \o "\n\nEmail:\n\n" \o emails[4]
       /\ pickPc = "returned" => pickResult = pickerOut

\* Three drafts were submitted and the picker's answer, which is none of
\* them, came back as the result.
C8_Witness ==
    /\ pickPc = "returned"
    /\ emails = <<"A", "B\n\nEmail:\n\n", "A">>
    /\ pickerInputs = <<"Cold sales emails:\n\nA\n\nEmail:\n\nB\n\nEmail:\n\n\n\nEmail:\n\nA">>
    /\ pickResult = "I pick A"

(***************************************************************************)
(* C9: the delivery path fixes the kind of email a request can transmit.   *)
(* On the direct-send path every transmitted email is text/plain with the  *)
(* fixed subject "Sales email" and neither subject_writer nor              *)
(* html_converter is ever invoked; on the handoff path every transmitted   *)
(* email is text/html with the subject supplied to send_html_email, and    *)
(* the send_email tool is never invoked.                                   *)
(***************************************************************************)
C9_PathFixesArtifact ==
    /\ Len(sendCalls) = Len(outbound)
    /\ (pc # "idle" /\ ~use_handoff)
           => /\ \A i \in 1..Len(outbound) :
                     /\ outbound[i].content_type = "text/plain"
                     /\ outbound[i].subject = "Sales email"
              /\ "subject_writer" \notin invoked
              /\ "html_converter" \notin invoked
    /\ (pc # "idle" /\ use_handoff)
           => /\ \A i \in 1..Len(outbound) :
                     /\ outbound[i].content_type = "text/html"
                     /\ sendCalls[i].tool = "send_html_email"
                     /\ outbound[i].subject = sendCalls[i].args[1]
              /\ "send_email" \notin invoked

\* A handoff request that transmitted an HTML mail under a subject of the
\* Email Manager's choosing, and ended.
C9_Witness ==
    /\ pc = "returned"
    /\ use_handoff
    /\ Len(outbound) = 1
    /\ outbound[1].content_type = "text/html"
    /\ outbound[1].subject = "Quick question"

(***************************************************************************)
(* C10: on the handoff path the Email Manager has exactly the three tools  *)
(* subject_writer, html_converter and send_html_email, and in every run it *)
(* invokes them strictly in that order: send_html_email never before both  *)
(* subject_writer and html_converter have returned, html_converter never   *)
(* before subject_writer.                                                  *)
(***************************************************************************)
C10_EmailManagerToolOrder ==
    /\ EmailManagerAgent.tools = {"subject_writer", "html_converter", "send_html_email"}
    /\ "send_html_email" \in invoked
           => {"subject_writer", "html_converter"} \subseteq returned
    /\ "html_converter" \in invoked => "subject_writer" \in invoked

(***************************************************************************)
(* C11: on the handoff path, once the Sales Manager has handed off to the  *)
(* Email Manager, control never returns to the Sales Manager (no drafting  *)
(* tool is invoked after the handoff, and there is no second handoff), and *)
(* the result send_sales_email returns is the Email Manager's final        *)
(* result.                                                                 *)
(***************************************************************************)
C11_NoReturnToSalesManager ==
    [][agent = "Email Manager"
          => /\ agent' = "Email Manager"
             /\ nextStep' \notin {"Sales Manager", "Email Manager"}
             /\ invoked' \cap DraftingTools = invoked \cap DraftingTools
             /\ pending' \cap DraftingTools = {}
             /\ pc' = "returned"
                    => (result'.kind = "return"
                        /\ result'.last_agent = "Email Manager")]_vars

\* A handoff request that drafted, handed off, sent and returned the Email
\* Manager's result.
C11_Witness ==
    /\ pc = "returned"
    /\ use_handoff
    /\ agent = "Email Manager"
    /\ result.last_agent = "Email Manager"
    /\ DraftingTools \subseteq returned
    /\ "send_html_email" \in invoked

(***************************************************************************)
(* C12: any exception raised by the agent runtime, by the email transport  *)
(* (a rejected delivery inside the send_email or send_html_email tool      *)
(* included) or by the guardrail during send_sales_email reaches the       *)
(* caller as the same exception, with no retry of the failed call and no   *)
(* result returned in its place.                                           *)
(***************************************************************************)
C12_ExceptionsReachCaller ==
    /\ toolError.kind = "raise"
           => /\ pc = "raised"
              /\ result.kind = "raise"
              /\ result.exc = toolError.exc
              /\ Len(outbound) <= accepted + 1
    /\ guard = "failed"
           => (pc = "raised" /\ result.kind = "raise" /\ result.exc = "RuntimeError")

(***************************************************************************)
(* C13: when SENDGRID_API_KEY is absent or empty, EmailConfig.from_env     *)
(* raises a configuration error, and so does constructing an SDRManager    *)
(* without an explicit email_config; in both cases the error is raised     *)
(* before the mail client is created and before any network call.          *)
(***************************************************************************)
C13_MissingKeyFailsFast ==
    (/\ cfgOp \in {"from_env", "SDRManager()"}
     /\ ("SENDGRID_API_KEY" \notin DOMAIN environ \/ environ["SENDGRID_API_KEY"] = ""))
    => /\ cfgResult.kind = "raise"
       /\ cfgResult.exc = "ValueError"
       /\ ~clientCreated
       /\ outbound = <<>>

\* A manager was constructed without a configuration while the key was set
\* but empty: the construction raised.
C13_Witness ==
    /\ cfgOp = "SDRManager()"
    /\ "SENDGRID_API_KEY" \in DOMAIN environ
    /\ environ["SENDGRID_API_KEY"] = ""
    /\ cfgResult.kind = "raise"
    /\ ~clientCreated

(***************************************************************************)
(* C14: generate_emails does not return to its caller, with a list or with *)
(* a failure, until all three drafting calls have completed; when the      *)
(* caller observes the outcome no drafting call is still in progress.      *)
(***************************************************************************)
C14_NoDraftingCallOutlivesTheOperation ==
    genPc \in {"returned", "raised"} => \A p \in PersonaSet : task[p] # "running"

(***************************************************************************)
(* C15: on both paths of send_sales_email, no handoff to the Email Manager *)
(* and no send tool call happens before all three drafting tools have each *)
(* been invoked and have returned in that request.                         *)
(***************************************************************************)
C15_DraftsBeforeHandoffOrSend ==
    (agent = "Email Manager" \/ nextStep = "Email Manager" \/ invoked \cap SendTools # {})
        => DraftingTools \subseteq returned

C17_GuardrailGatesOnlySending ==
    /\ guard = "none"
    /\ genError # "InputGuardrailTripwireTriggered"
    /\ pickError # "InputGuardrailTripwireTriggered"
    /\ \A p \in PersonaSet : SalesAgentDef(p).tools \cap SendTools = {}
    /\ sales_picker.tools \cap SendTools = {}
    /\ invoked = {} /\ sendCalls = <<>> /\ outbound = <<>>
    /\ genPc # "idle" => \A p \in PersonaSet : task[p] # "none"
    /\ (\A p \in PersonaSet : task[p] = "done")
           => (genPc = "returned" /\ genResult = GatherResults(taskOut, completed))

\* A message naming a person was given to generate_emails, which returned the
\* three drafts; a pick_best_email call has returned too.
C17_Witness ==
    /\ genMessage = "Send a cold sales email from Alice"
    /\ genPc = "returned"
    /\ Len(genResult) = 3
    /\ pickPc = "returned"

====
